---- MODULE Spec2Model ----
(***************************************************************************)
(* Revenue aggregation of the project portfolio dashboard.                 *)
(*                                                                         *)
(* The React component ProjectCharts holds the uploaded project and invoice *)
(* rows (DataContext), two year selectors and three derived aggregates that *)
(* are recomputed by effects.  The static page (static/script.js) plots the *)
(* monthly totals delivered by the server.                                 *)
(*                                                                         *)
(* Spec is the dashboard with its charts, SpecUpload the upload handler of  *)
(* UpdateButton with its two awaits, SpecStatic the static page with its    *)
(* parse requests and year selectors.                                      *)
(*                                                                         *)
(* Amounts of project rows are whole numbers; invoice amounts are counted   *)
(* in hundredths, so that "$1,200.50" is 120050.                            *)
(***************************************************************************)
EXTENDS Integers, Sequences, FiniteSets, TLC

\* ------------------------------------------------------------------ bounds
MaxProjects == 2
MaxInvoices == 2
MaxStartMonth == 4
MaxScale == 1
MaxParses == 2
MaxChats == 2

\* ------------------------------------------------------- program constants
availableYears == {2024, 2025}
defaultYears == {2024, 2025}
OverrideYear == 2025
OverrideJan == 243500
OverrideTolerance == 10000
correctValues ==
    <<243500, 683500, 1512768, 619640, 891476, 1341405,
      1020506, 1263522, 881522, 1664908, 1031088, 1887836>>

Months == 1..12
YM == availableYears \X Months

\* ------------------------------------------------------------ JS values
\* A JavaScript value as far as the aggregation looks at it: its type tag,
\* and the number it holds when it is a number.
Absent == [t |-> "absent", v |-> 0]
Null == [t |-> "null", v |-> 0]
Num(n) == [t |-> "number", v |-> n]
Str(n) == [t |-> "string", v |-> n]

\* 'Project Code' values: undefined, null, or a string ("" is the empty code)
NoCode == [t |-> "absent", s |-> ""]
NullCode == [t |-> "null", s |-> ""]
Code(s) == [t |-> "string", s |-> s]

\* JS truthiness of a 'Project Code' value
CodeTruthy(c) == c.t = "string" /\ c.s # ""

\* ------------------------------------------------------- project rows
\* 'Project Status' values: undefined, or a string ("" is the empty status)
NoStatus == [t |-> "absent", s |-> ""]
Status(s) == [t |-> "string", s |-> s]

\* 'Year' values: undefined, null, a number, or a string of digits
NoYear == [t |-> "absent", v |-> 0, s |-> <<>>]
NullYear == [t |-> "null", v |-> 0, s |-> <<>>]
NumYear(n) == [t |-> "number", v |-> n, s |-> <<>>]
StrYear(s) == [t |-> "string", v |-> 0, s |-> s]

\* the columns '<year> <Mon>' are numbered year by year, month by month
FirstYear == CHOOSE y \in availableYears : \A z \in availableYears : y <= z
Col(year, m) == 12 * (year - FirstYear) + m
ColumnOf(c) == <<FirstYear + (c - 1) \div 12, ((c - 1) % 12) + 1>>

\* A row: its 'Project Code', and the value of every '<year> <Mon>' column.
Row(code, cols) ==
    [code |-> code,
     f |-> [c \in 1..Cardinality(YM) |->
               IF ColumnOf(c) \in DOMAIN cols THEN cols[ColumnOf(c)]
               ELSE Absent]]

\* A row with its 'Project Status' and 'Year' as well.
Project(code, status, year, cols) ==
    [code |-> code, status |-> status, Year |-> year, f |-> Row(code, cols).f]

ProjectPool ==
    { Project(Code("P1"), Status("Active"), NumYear(2025),
              (<<2025, 1>> :> Num(100)) @@ (<<2025, 2>> :> Num(200))
                  @@ (<<2024, 1>> :> Num(10))),
      Project(Code("P1"), Status("Active"), StrYear(<<"2", "0", "2", "5">>),
              (<<2025, 1>> :> Num(900)) @@ (<<2024, 1>> :> Num(90))),
      Project(Code("P2"), NoStatus, NumYear(2024),
              (<<2025, 1>> :> Num(240000)) @@ (<<2025, 3>> :> Str(500))
                  @@ (<<2025, 4>> :> Null) @@ (<<2025, 12>> :> Num(300))
                  @@ (<<2024, 12>> :> Num(7))),
      Project(NoCode, Status(""), NoYear,
              (<<2025, 1>> :> Str(1000)) @@ (<<2025, 7>> :> Num(50))
                  @@ (<<2024, 2>> :> Num(5))),
      Project(Code(""), Status("Completed"), NullYear,
              (<<2025, 1>> :> Num(3000)) @@ (<<2024, 3>> :> Num(20))) }

\* all sequences over S of length at most n
SeqsUpTo(S, n) == UNION { [1..k -> S] : k \in 0..n }

\* ------------------------------------------------------- sums
RECURSIVE SumSeq(_)
SumSeq(s) == IF s = <<>> THEN 0 ELSE s[1] + SumSeq(Tail(s))

\* running total of a sequence (the forEach with runningTotal)
\* the running total never carried over: each month on its own
RunningTotal_NoCarry(s) == s

RunningTotal(s) == [i \in 1..Len(s) |-> SumSeq(SubSeq(s, 1, i))]

\* ------------------------------------------- calculateMonthlyData: dedup
\* the forEach over data with the Set 'seen'
RECURSIVE DedupFrom(_, _, _)
\* the rows kept are put in front of the result, not behind it
DedupFrom_Unshift(rows, seen, acc) ==
    IF rows = <<>> THEN acc
    ELSE LET project == Head(rows)
             projectCode == project.code
         IN IF CodeTruthy(projectCode) /\ projectCode.s \notin seen
            THEN DedupFrom(Tail(rows), seen \cup {projectCode.s},
                           <<project>> \o acc)
            ELSE IF ~CodeTruthy(projectCode)
                 THEN DedupFrom(Tail(rows), seen, <<project>> \o acc)
                 ELSE DedupFrom(Tail(rows), seen, acc)

DedupFrom(rows, seen, acc) ==
    IF rows = <<>> THEN acc
    ELSE LET project == Head(rows)
             projectCode == project.code
         IN IF CodeTruthy(projectCode) /\ projectCode.s \notin seen
            THEN DedupFrom(Tail(rows), seen \cup {projectCode.s},
                           Append(acc, project))
            ELSE IF ~CodeTruthy(projectCode)
                 THEN DedupFrom(Tail(rows), seen, Append(acc, project))
                 ELSE DedupFrom(Tail(rows), seen, acc)

\* the rows taken as they are, duplicates included
uniqueData_NoDedup(rows) == rows

uniqueData(rows) == DedupFrom(rows, {}, <<>>)

\* ----------------------------------- calculateMonthlyData: monthly totals
\* what one row adds to month m of the year: the value of '<year> <Mon>' when
\* the column is in the row and typeof value === 'number'
\* a numeric string counted like a number
FieldContribution_CountsStrings(project, year, m) ==
    LET value == project.f[Col(year, m)]
    IN IF value.t \in {"number", "string"} THEN value.v ELSE 0

FieldContribution(project, year, m) ==
    LET value == project.f[Col(year, m)]
    IN IF value.t # "absent" /\ value.t = "number" THEN value.v ELSE 0

RECURSIVE TotalOfMonth(_, _, _)
TotalOfMonth(rows, year, m) ==
    IF rows = <<>> THEN 0
    ELSE FieldContribution(Head(rows), year, m)
         + TotalOfMonth(Tail(rows), year, m)

\* monthlyRevenue as computed from the working data
monthlyTotals(workingData, year) ==
    [m \in Months |-> TotalOfMonth(workingData, year, m)]

Abs(x) == IF x < 0 THEN -x ELSE x

\* the emergency override test
UseOverride(monthlyRevenue, year) ==
    year = OverrideYear /\ Abs(monthlyRevenue[1] - OverrideJan) > OverrideTolerance

EmptyMonthly == [monthlyRevenue |-> <<>>, cumulativeRevenue |-> <<>>]

\* no calculation has run yet
NoCalc == [workingData |-> <<>>, monthlyRevenue |-> <<>>]

\* the object handed to setMonthlyData (and stored in directCalculatedData)
PublishedMonthly(rows, year) ==
    LET monthlyRevenue == monthlyTotals(uniqueData(rows), year)
    IN IF UseOverride(monthlyRevenue, year)
       THEN [monthlyRevenue |-> correctValues,
             cumulativeRevenue |-> RunningTotal(correctValues)]
       ELSE [monthlyRevenue |-> monthlyRevenue,
             cumulativeRevenue |-> RunningTotal(monthlyRevenue)]

\* ------------------------------------------------ calculateQuarterlyData
EmptyQuarterly == [quarterlyRevenue |-> <<>>, cumulativeRevenue |-> <<>>]

\* the last quarter without December
QuarterlyOf_DropsDec(monthlyRevenue) ==
    LET q == << monthlyRevenue[1] + monthlyRevenue[2] + monthlyRevenue[3],
                monthlyRevenue[4] + monthlyRevenue[5] + monthlyRevenue[6],
                monthlyRevenue[7] + monthlyRevenue[8] + monthlyRevenue[9],
                monthlyRevenue[10] + monthlyRevenue[11] >>
    IN [quarterlyRevenue |-> q, cumulativeRevenue |-> RunningTotal(q)]

QuarterlyOf(monthlyRevenue) ==
    LET q == << monthlyRevenue[1] + monthlyRevenue[2] + monthlyRevenue[3],
                monthlyRevenue[4] + monthlyRevenue[5] + monthlyRevenue[6],
                monthlyRevenue[7] + monthlyRevenue[8] + monthlyRevenue[9],
                monthlyRevenue[10] + monthlyRevenue[11] + monthlyRevenue[12] >>
    IN [quarterlyRevenue |-> q, cumulativeRevenue |-> RunningTotal(q)]

\* ------------------------------------------------------- strings
\* A string is the sequence of its characters.
Digits == {"0", "1", "2", "3", "4", "5", "6", "7", "8", "9"}

DigitVal(c) ==
    CASE c = "0" -> 0 [] c = "1" -> 1 [] c = "2" -> 2 [] c = "3" -> 3
      [] c = "4" -> 4 [] c = "5" -> 5 [] c = "6" -> 6 [] c = "7" -> 7
      [] c = "8" -> 8 [] c = "9" -> 9

\* number of consecutive digits of s from position i on
RECURSIVE DigitRun(_, _)
DigitRun(s, i) ==
    IF i > Len(s) \/ s[i] \notin Digits THEN 0 ELSE 1 + DigitRun(s, i + 1)

\* the number written by the n digits of s from position i on
RECURSIVE DigitsValue(_, _, _)
DigitsValue(s, i, n) ==
    IF n = 0 THEN 0
    ELSE DigitsValue(s, i, n - 1) * 10 + DigitVal(s[i + n - 1])

NaN == [nan |-> TRUE, v |-> 0]
Number(n) == [nan |-> FALSE, v |-> n]

\* value.replace(/[^0-9.-]+/g, '')
StripNonNumeric(s) == SelectSeq(s, LAMBDA c : c \in Digits \cup {".", "-"})

\* parseFloat of a string of digits, '.' and '-': the longest prefix that is
\* a decimal literal, in hundredths (digits after the second decimal place
\* are not represented); NaN when no prefix is one
parseFloat(s) ==
    LET neg == Len(s) >= 1 /\ s[1] = "-"
        start == IF neg THEN 2 ELSE 1
        nInt == DigitRun(s, start)
        dot == start + nInt
        hasDot == dot <= Len(s) /\ s[dot] = "."
        nFrac == IF hasDot THEN DigitRun(s, dot + 1) ELSE 0
        d1 == IF nFrac >= 1 THEN DigitVal(s[dot + 1]) ELSE 0
        d2 == IF nFrac >= 2 THEN DigitVal(s[dot + 2]) ELSE 0
        mag == DigitsValue(s, start, nInt) * 100 + d1 * 10 + d2
    IN IF nInt = 0 /\ nFrac = 0 THEN NaN
       ELSE Number(IF neg THEN -mag ELSE mag)

\* parseInt of a string without sign: its leading digits, as a whole number
parseInt(s) ==
    LET n == DigitRun(s, 1)
    IN IF n = 0 THEN NaN ELSE Number(DigitsValue(s, 1, n))

\* ------------------------------------------------------- invoice rows
\* payment_amount_usd: undefined, null, a number (hundredths) or a string
NoAmount == [t |-> "absent", v |-> 0, s |-> <<>>]
NullAmount == [t |-> "null", v |-> 0, s |-> <<>>]
NumAmount(h) == [t |-> "number", v |-> h, s |-> <<>>]
StrAmount(s) == [t |-> "string", v |-> 0, s |-> s]

\* invoice_date: undefined, null, a string that new Date() parses (year and
\* month of the parsed date), or a string it does not parse (its parts
\* between '-' and '/')
NoDate == [k |-> "absent", y |-> 0, m |-> 0, parts |-> <<>>]
NullDate == [k |-> "null", y |-> 0, m |-> 0, parts |-> <<>>]
ValidDate(y, m) == [k |-> "valid", y |-> y, m |-> m, parts |-> <<>>]
InvalidDate(parts) == [k |-> "invalid", y |-> 0, m |-> 0, parts |-> parts]

\* invoice_month_name: undefined or a string
NoName == [t |-> "absent", s |-> <<>>]
Name(s) == [t |-> "string", s |-> s]

Invoice(date, month, year, name, amount) ==
    [invoice_date |-> date, invoice_month |-> month, invoice_year |-> year,
     invoice_month_name |-> name, payment_amount_usd |-> amount]

months ==
    << <<"J", "a", "n">>, <<"F", "e", "b">>, <<"M", "a", "r">>,
       <<"A", "p", "r">>, <<"M", "a", "y">>, <<"J", "u", "n">>,
       <<"J", "u", "l">>, <<"A", "u", "g">>, <<"S", "e", "p">>,
       <<"O", "c", "t">>, <<"N", "o", "v">>, <<"D", "e", "c">> >>

InvoicePool ==
    { Invoice(NoDate, Num(3), Num(2025), NoName, NumAmount(50000)),
      Invoice(ValidDate(2025, 3), Absent, Absent, NoName, NumAmount(30000)),
      Invoice(ValidDate(2025, 3), Absent, Absent,
              Name(<<"M", "a", "r", "c", "h">>), NumAmount(10000)),
      Invoice(ValidDate(2025, 4), Absent, Absent, NoName,
              StrAmount(<<"$", "1", ",", "2", "0", "0", ".", "5", "0">>)),
      Invoice(ValidDate(2025, 4), Absent, Absent, NoName,
              StrAmount(<<"N", "/", "A">>)),
      Invoice(ValidDate(2025, 5), Absent, Absent, NoName, NumAmount(-5000)),
      Invoice(InvalidDate(<< <<"2", "0", "2", "5">>, <<"0", "6">>,
                             <<"3", "1", "x">> >>),
              Absent, Absent, NoName, NumAmount(4000)) }

\* -------------------------------------------------- calculateInvoiceData
\* !invoice.payment_amount_usd
AmountFalsy(a) ==
    \/ a.t \in {"absent", "null"}
    \/ a.t = "number" /\ a.v = 0
    \/ a.t = "string" /\ a.s = <<>>

\* typeof x === 'number' ? x : parseFloat(String(x || '0').replace(..)) || 0
paymentAmountOf(a) ==
    IF a.t = "number" THEN a.v
    ELSE LET parsed == parseFloat(StripNonNumeric(a.s))
         IN IF parsed.nan THEN 0 ELSE parsed.v

\* isNaN(x) of an invoice_month / invoice_year value
IsNaNValue(x) == x.t = "absent"

\* x >= lo && x <= hi, with the numeric coercion of the comparison
CoercedBetween(x, lo, hi) ==
    LET n == IF x.t = "null" THEN 0 ELSE x.v
    IN x.t # "absent" /\ n >= lo /\ n <= hi

\* !invoice.invoice_year
YearFalsy(x) == x.t \in {"absent", "null"} \/ (x.t = "number" /\ x.v = 0)

Add(totals, m, amount) == [totals EXCEPT ![m] = @ + amount]

\* position of a three-letter month in months, 0 when it is none
MonthIndex(abbr) ==
    IF \E i \in Months : months[i] = abbr
    THEN CHOOSE i \in Months : months[i] = abbr
    ELSE 0

substring3(s) == SubSeq(s, 1, IF Len(s) < 3 THEN Len(s) ELSE 3)

\* the body of invoiceData.forEach: the totals after one invoice
InvoiceStep(totals, invoice, year) ==
    LET a == invoice.payment_amount_usd
        paymentAmount == paymentAmountOf(a)
        invoiceMonth == invoice.invoice_month
        invoiceYear == invoice.invoice_year
        \* rule 1: invoice_month and invoice_year
        byFields ==
            /\ ~IsNaNValue(invoiceMonth) /\ ~IsNaNValue(invoiceYear)
            /\ CoercedBetween(invoiceMonth, 1, 12)
            /\ invoiceYear.t = "number" /\ invoiceYear.v = year
            /\ invoiceMonth.t = "number"
        monthAdded == byFields
        t1 == IF byFields THEN Add(totals, invoiceMonth.v, paymentAmount)
              ELSE totals
        \* rule 2: the parsed date (monthAdded is left as it is)
        byDate ==
            /\ ~monthAdded
            /\ invoice.invoice_date.k = "valid"
            /\ invoice.invoice_date.y = year
        t2 == IF byDate THEN Add(t1, invoice.invoice_date.m, paymentAmount)
              ELSE t1
        \* rule 3: invoice_month_name
        month == MonthIndex(substring3(invoice.invoice_month_name.s))
        byName ==
            /\ ~monthAdded
            /\ invoice.invoice_month_name.t = "string"
            /\ invoice.invoice_month_name.s # <<>>
            /\ month # 0
            /\ \/ YearFalsy(invoiceYear)
               \/ invoiceYear.t = "number" /\ invoiceYear.v = year
        t3 == IF byName THEN Add(t2, month, paymentAmount) ELSE t2
    IN IF AmountFalsy(a) THEN totals
       ELSE IF paymentAmount <= 0 THEN totals
       ELSE t3

RECURSIVE InvoiceFold(_, _, _)
InvoiceFold(totals, invoices, year) ==
    IF invoices = <<>> THEN totals
    ELSE InvoiceFold(InvoiceStep(totals, Head(invoices), year),
                     Tail(invoices), year)

ZeroMonths == [m \in Months |-> 0]

\* the array handed to setMonthlyInvoiceData
monthlyPaymentsArray(invoices, year) == InvoiceFold(ZeroMonths, invoices, year)

EmptyInvoiceData == [monthlyPayments |-> <<>>]

\* ------------------------------------------- render path: invoice totals
RenderYear == 2025

\* the year in the title of the expected-vs-actualized chart
ChartTitleYear == 2025

\* parsePaymentAmount
parsePaymentAmount(a) ==
    IF a.t = "number" THEN a.v
    ELSE IF a.t = "string"
         THEN LET parsed == parseFloat(StripNonNumeric(a.s))
              IN IF parsed.nan THEN 0 ELSE parsed.v
         ELSE 0

\* String(rawDate).split(/[-/]/) of a date new Date() does not parse
DateParts(d) ==
    IF d.k = "invalid" THEN d.parts
    ELSE << <<"u", "n", "d", "e", "f", "i", "n", "e", "d">> >>

\* the recovery of year and month from the parts of an unparsed date:
\* the month the amount is added to, 0 when none
RecoveredMonth(d) ==
    LET dateParts == DateParts(d)
        possibleYears ==
            SelectSeq(dateParts, LAMBDA p : Len(p) = 4 /\ ~parseInt(p).nan)
        nonYearParts ==
            SelectSeq(dateParts, LAMBDA p : p # possibleYears[1])
        possibleMonth == parseInt(nonYearParts[1])
    IN IF Len(dateParts) >= 3 /\ Len(possibleYears) > 0
          /\ parseInt(possibleYears[1]).v = RenderYear
          /\ Len(nonYearParts) >= 2
          /\ ~possibleMonth.nan
          /\ possibleMonth.v >= 1 /\ possibleMonth.v <= 12
       THEN possibleMonth.v
       ELSE 0

\* the body of the render-path forEach: the totals after one invoice
RenderStep(totals, invoice) ==
    LET d == invoice.invoice_date
        paymentAmount == parsePaymentAmount(invoice.payment_amount_usd)
        isValidDate == d.k \in {"valid", "null"}
        dateYear == IF d.k = "valid" THEN d.y ELSE 1970
        yearIs2025 ==
            invoice.invoice_year.t \in {"number", "string"}
            /\ invoice.invoice_year.v = RenderYear
        name == invoice.invoice_month_name
        monthNum == invoice.invoice_month
        month ==
            IF name.t = "string" /\ name.s # <<>>
            THEN MonthIndex(substring3(name.s))
            ELSE IF monthNum.t \in {"number", "string"} /\ monthNum.v # 0
                    /\ monthNum.v >= 1 /\ monthNum.v <= 12
                 THEN monthNum.v
                 ELSE 0
    IN IF ~isValidDate
       THEN IF RecoveredMonth(d) # 0
            THEN Add(totals, RecoveredMonth(d), paymentAmount)
            ELSE totals
       ELSE IF dateYear = RenderYear
            THEN Add(totals, d.m, paymentAmount)
            ELSE IF yearIs2025 /\ month # 0
                 THEN Add(totals, month, paymentAmount)
                 ELSE totals

RECURSIVE RenderFold(_, _)
RenderFold(totals, invoices) ==
    IF invoices = <<>> THEN totals
    ELSE RenderFold(RenderStep(totals, Head(invoices)), Tail(invoices))

\* actualizedMonthlyRevenue of the expected-vs-actualized chart
actualizedMonthlyRevenue(invoices) == RenderFold(ZeroMonths, invoices)

\* --------------------------------------------- static page: rev_totals
\* the decimal digits of a number below 10000, at least 'width' of them
Digit(n) == CHOOSE c \in Digits : DigitVal(c) = n
RECURSIVE DigitsOf(_, _)
DigitsOf(n, width) ==
    IF width = 0 THEN <<>>
    ELSE Append(DigitsOf(n \div 10, width - 1), Digit(n % 10))

\* the month string of an entry of rev_totals: "2025-01"
MonthString(y, m) == DigitsOf(y, 4) \o <<"-">> \o DigitsOf(m, 2)

\* String.prototype.includes
Includes(s, sub) ==
    \E i \in 1..(Len(s) + 1) :
        i + Len(sub) - 1 <= Len(s) /\ SubSeq(s, i, i + Len(sub) - 1) = sub

\* the entries of rev_totals for n consecutive months from month m0 of year
\* y0 on, with revenue totals that differ from month to month
RECURSIVE Series(_, _, _, _)
Series(y0, m0, n, k) ==
    IF n = 0 THEN <<>>
    ELSE <<[month |-> MonthString(y0, m0),
            revenue_total |-> k * (100 * m0 + (y0 - 2000))]>>
         \o Series(IF m0 = 12 THEN y0 + 1 ELSE y0,
                   IF m0 = 12 THEN 1 ELSE m0 + 1, n - 1, k)

\* the rev_totals tried: the months from a start month up to December 2025
RevLists ==
    { Series(y0, m0, 12 * (2025 - y0) + 13 - m0, k) :
        y0 \in availableYears, m0 \in 1..MaxStartMonth, k \in 1..MaxScale }

YearOptions == { DigitsOf(y, 4) : y \in availableYears }
CurrentYears == { DigitsOf(y, 4) : y \in {2024, 2025, 2026} }

\* quarterlyTotals[quarterIndex] += revenue_total, on an array of 4 zeros:
\* an index past the end makes a new element undefined + number = NaN
AddToQuarter(totals, quarterIndex, amount) ==
    IF quarterIndex + 1 <= Len(totals)
    THEN [totals EXCEPT ![quarterIndex + 1] =
              IF @.nan THEN NaN ELSE Number(@.v + amount)]
    ELSE Append(totals, NaN)

RECURSIVE QuarterFold(_, _, _)
QuarterFold(totals, filteredData, index) ==
    IF index >= Len(filteredData) THEN totals
    ELSE QuarterFold(AddToQuarter(totals, index \div 3,
                                  filteredData[index + 1].revenue_total),
                     filteredData, index + 1)

\* createQuarterlyRevenueChart: the y values of the quarterly bar chart
createQuarterlyRevenueChart(revenueData, year) ==
    LET filteredData ==
            SelectSeq(revenueData, LAMBDA item : Includes(item.month, year))
    IN QuarterFold(<<Number(0), Number(0), Number(0), Number(0)>>,
                   filteredData, 0)

\* --------------------------------------------------- status distribution
\* JS truthiness of a 'Project Status' value
StatusTruthy(status) == status.t = "string" /\ status.s # ""

StatusLabel_NoUnknown(project) == project.status.s

\* project['Project Status'] || 'Unknown' (String() of a string is itself)
StatusLabel(project) ==
    IF StatusTruthy(project.status) THEN project.status.s ELSE "Unknown"

\* acc[status] = (acc[status] || 0) + 1
CountInto(acc, status) ==
    IF status \in DOMAIN acc
    THEN [acc EXCEPT ![status] = @ + 1]
    ELSE acc @@ (status :> 1)

NoCounts == [status \in {} |-> 0]

RECURSIVE CountFold(_, _)
CountFold(acc, rows) ==
    IF rows = <<>> THEN acc
    ELSE CountFold(CountInto(acc, StatusLabel(Head(rows))), Tail(rows))

\* ProjectCharts: statusCounts = data.reduce(...)
statusCounts(rows) == CountFold(NoCounts, rows)

\* the decimal digits of a natural number
RECURSIVE DecimalDigits(_)
DecimalDigits(n) ==
    IF n < 10 THEN <<Digit(n)>>
    ELSE Append(DecimalDigits(n \div 10), Digit(n % 10))

\* JS truthiness of a 'Year' value
YearTruthy(year) ==
    \/ year.t = "number" /\ year.v # 0
    \/ year.t = "string" /\ year.s # <<>>

\* projectYear.toString()
toString(year) == IF year.t = "number" THEN DecimalDigits(year.v) ELSE year.s

\* the value of the "All Years" option
AllYears == <<"a", "l", "l">>

\* static page: the rows createProjectStatusChart counts
filteredData(projectData, selected) ==
    IF selected # AllYears
    THEN SelectSeq(projectData,
                   LAMBDA project : /\ YearTruthy(project.Year)
                                    /\ toString(project.Year) = selected)
    ELSE projectData

\* static page: statusCounts of createProjectStatusChart
createProjectStatusChart(projectData, selected) ==
    CountFold(NoCounts, filteredData(projectData, selected))

\* static page: the option values populateYearSelector leaves in yearSelector
populateYearSelector(projectData) ==
    {AllYears} \cup
    { toString(projectData[i].Year) :
        i \in { j \in 1..Len(projectData) :
                  projectData[j].Year.t \notin {"absent", "null"} } }

\* ------------------------------------------------------------- state
VARIABLES
    data,                   \* DataContext: project rows
    invoiceData,            \* DataContext: invoice rows
    selectedYear,           \* year of the monthly chart
    selectedYearQuarterly,  \* year of the quarterly chart
    monthlyData,            \* useState: monthly and cumulative revenue
    monthlyInvoiceData,     \* useState: monthly invoice payments
    quarterlyData,          \* useState: quarterly and cumulative revenue
    directCalculatedData,   \* what calculateMonthlyData stored directly
    calc,                   \* locals of the last calculateMonthlyData run
    pending,                \* effects scheduled by the last commit
    reloadScheduled,        \* the reload timer of handleHardRefresh is set
    selectedFile,           \* UpdateButton: a file has been chosen
    isLoading,              \* UpdateButton useState
    isAnalyzing,            \* UpdateButton useState
    error,                  \* UpdateButton useState: which message is shown
    pc,                     \* handleUpdate: the await it is suspended at
    response,               \* handleUpdate: its local 'response'
    apiResult,              \* how the last uploadAndGetData call ended
    invoiceDataType,        \* DataContext: what kind of value invoiceData is
    globalProjectData,      \* static page: project_data of the last parse
    globalRevenueData,      \* static page: rev_totals of the last parse
    globalInvoiceData,      \* static page: invoice_data of the last parse
    quarterlyChart,         \* static page: year and bars of the quarterly chart
    statusChart,            \* static page: rows, year and counts of the status chart
    fileSelected,           \* static page: fileInput.files[0] exists
    parseBtnDisabled,       \* static page: parseBtn.disabled
    loadingShown,           \* static page: loading.style.display is 'block'
    message,                \* static page: kind of the message shown
    inFlight,               \* static page: the parse requests not yet answered
    started,                \* static page: number of parse requests started
    heldFrom,               \* static page: the request whose result is held
    dataLoaded,             \* App useState
    isChatVisible,          \* App useState
    chatIsLoading,          \* ChatWindow useState isLoading
    chatWindowShown,        \* static page: chatWindow has the class 'show'
    floatingBtnShown,       \* static page: floatingChatBtn has the class 'show'
    chatInputDisabled,      \* static page: chatInput and chatSendBtn disabled
    chatLoadingShown,       \* static page: the element 'chat-loading' exists
    chatTimers,             \* static page: showChatWindow timers not yet fired
    messages,               \* the chat messages shown, in order
    sessionId,              \* the chat session id, 0 when there is none
    chatRequests,           \* the chat requests sent and not yet answered
    chatStarted             \* number of chat requests sent

vars == <<data, invoiceData, selectedYear, selectedYearQuarterly,
          monthlyData, monthlyInvoiceData, quarterlyData,
          directCalculatedData, calc, pending, reloadScheduled,
          selectedFile, isLoading, isAnalyzing, error, pc, response,
          apiResult, invoiceDataType,
          globalProjectData, globalRevenueData, globalInvoiceData,
          quarterlyChart, statusChart, fileSelected, parseBtnDisabled,
          loadingShown, message, inFlight, started, heldFrom,
          dataLoaded, isChatVisible, chatIsLoading, chatWindowShown,
          floatingBtnShown, chatInputDisabled, chatLoadingShown, chatTimers,
          messages, sessionId, chatRequests, chatStarted>>

reactVars == <<data, invoiceData, selectedYear, selectedYearQuarterly,
               monthlyData, monthlyInvoiceData, quarterlyData,
               directCalculatedData, calc, pending, reloadScheduled,
               selectedFile, isLoading, isAnalyzing, error, pc, response>>
uploadVars == <<selectedFile, isLoading, isAnalyzing, error, pc, response>>
wireVars == <<apiResult, invoiceDataType>>
reactChatVars == <<dataLoaded, isChatVisible, chatIsLoading>>
staticChatVars == <<chatWindowShown, floatingBtnShown, chatInputDisabled,
                    chatLoadingShown, chatTimers>>
sharedChatVars == <<messages, sessionId, chatRequests, chatStarted>>
chatVars == <<reactChatVars, staticChatVars, sharedChatVars>>
staticVars == <<globalProjectData, globalRevenueData, globalInvoiceData,
                quarterlyChart, statusChart, fileSelected, parseBtnDisabled,
                loadingShown, message, inFlight, started, heldFrom>>

NoChart == [year |-> <<>>, y |-> <<>>]
NoStatusChart == [rows |-> <<>>, year |-> <<>>, counts |-> NoCounts]
NoResponse == [projects |-> <<>>, invoices |-> <<>>]

\* the uploads tried: every project list with a fixed invoice list, and
\* every invoice list with a fixed project list
ProjectLists == SeqsUpTo(ProjectPool, MaxProjects)
InvoiceLists == SeqsUpTo(InvoicePool, MaxInvoices)
BaseProjects ==
    << Project(Code("P1"), Status("Active"), NumYear(2025),
               (<<2025, 1>> :> Num(100)) @@ (<<2025, 2>> :> Num(200))
                   @@ (<<2024, 1>> :> Num(10))) >>
BaseInvoices ==
    << Invoice(ValidDate(2025, 3), Absent, Absent, NoName, NumAmount(30000)) >>
Uploads ==
    (ProjectLists \X {BaseInvoices}) \cup ({BaseProjects} \X InvoiceLists)

\* ------------------------------------------- the upload response as sent
\* a JSON array element that is null where a project row is expected: reading
\* a property of it throws a TypeError
NullRow ==
    Project([t |-> "nullrow", s |-> ""], NoStatus, NoYear,
            (<<2025, 1>> :> Absent))
IsNullRow(row) == row.code.t = "nullrow"

\* a JSON value in a field of the response body: its kind, its elements when
\* it is an array, its characters when it is a string
JAbsent == [t |-> "absent", v |-> <<>>, s |-> <<>>]
JNull == [t |-> "null", v |-> <<>>, s |-> <<>>]
JObject == [t |-> "object", v |-> <<>>, s |-> <<>>]
JString(s) == [t |-> "string", v |-> <<>>, s |-> s]
JArray(rows) == [t |-> "array", v |-> rows, s |-> <<>>]

JTruthy(x) == x.t \in {"array", "object"} \/ (x.t = "string" /\ x.s # <<>>)
IsArray(x) == x.t = "array"

\* x || []
OrEmptyArray(x) == IF JTruthy(x) THEN x ELSE JArray(<<>>)

\* a parsed response body: an object with its 'projects' and 'invoices'
\* fields, a bare array of rows, null, or a string
BodyObject(projects, invoices) ==
    [t |-> "object", v |-> <<>>, projects |-> projects, invoices |-> invoices]
BodyArray(rows) ==
    [t |-> "array", v |-> rows, projects |-> JAbsent, invoices |-> JAbsent]
BodyNull == [t |-> "null", v |-> <<>>, projects |-> JAbsent, invoices |-> JAbsent]
BodyString ==
    [t |-> "string", v |-> <<>>, projects |-> JAbsent, invoices |-> JAbsent]

\* a row of a workbook that has columns for 2025 only
SingleYearRow ==
    Project(Code("P4"), Status("Active"), NumYear(2025),
            (<<2025, 1>> :> Num(100)) @@ (<<2025, 2>> :> Num(200)))

\* the project arrays and the field values a server response is tried with
WireProjectLists ==
    SeqsUpTo({BaseProjects[1], SingleYearRow, NullRow}, MaxProjects)
WireProjects ==
    {JAbsent, JNull, JObject, JString(<<"x">>)}
        \cup { JArray(rows) : rows \in WireProjectLists }
WireInvoices ==
    {JAbsent, JNull, JObject, JString(<<>>), JString(<<"x">>),
     JArray(<<>>), JArray(BaseInvoices)}

\* the HTTP responses tried: response.ok and the parsed body
HttpResponses ==
    { [ok |-> TRUE, body |-> BodyObject(p, i)] :
          p \in WireProjects, i \in WireInvoices }
    \cup { [ok |-> TRUE, body |-> BodyArray(rows)] : rows \in WireProjectLists }
    \cup { [ok |-> TRUE, body |-> b] : b \in {BodyNull, BodyString} }
    \cup { [ok |-> FALSE, body |-> b] :
              b \in {BodyNull, BodyObject(JAbsent, JAbsent)} }

\* ------------------------------------------------------- uploadAndGetData
\* how a call ended: by a throw or a return, with the message thrown or the
\* value returned, and the response it was made on
Thrown(h, msg) ==
    [outcome |-> "throw", message |-> msg, value |-> BodyNull, sent |-> h]
Returned(h, value) ==
    [outcome |-> "return", message |-> "", value |-> value, sent |-> h]
NoApiResult ==
    [outcome |-> "none", message |-> "", value |-> BodyNull,
     sent |-> [ok |-> FALSE, body |-> BodyNull]]

\* rows.map(p => p['Project Code']) throws on a null element
MapThrows(rows) == \E i \in 1..Len(rows) : IsNullRow(rows[i])

\* what the call does with the server's response
uploadAndGetData(h) ==
    LET responseData == h.body
    IN IF ~h.ok THEN Thrown(h, "server")
       ELSE IF responseData.t = "null" THEN Thrown(h, "TypeError")
       ELSE IF JTruthy(responseData.projects) /\ IsArray(responseData.projects)
            THEN IF MapThrows(responseData.projects.v)
                 THEN Thrown(h, "TypeError")
                 ELSE Returned(h, responseData)
       ELSE IF responseData.t = "array"
            THEN IF MapThrows(responseData.v)
                 THEN Thrown(h, "TypeError")
                 ELSE Returned(h, BodyObject(JArray(responseData.v),
                                             JArray(<<>>)))
       ELSE Thrown(h, "format")

Init ==
    /\ data = <<>>
    /\ invoiceData = <<>>
    /\ selectedYear \in defaultYears
    /\ selectedYearQuarterly = selectedYear
    /\ monthlyData = EmptyMonthly
    /\ monthlyInvoiceData = EmptyInvoiceData
    /\ quarterlyData = EmptyQuarterly
    /\ directCalculatedData = EmptyMonthly
    /\ calc = NoCalc
    /\ pending = {}
    /\ reloadScheduled = FALSE
    /\ selectedFile = FALSE
    /\ isLoading = FALSE
    /\ isAnalyzing = FALSE
    /\ error = "null"
    /\ pc = "idle"
    /\ response = NoResponse
    /\ apiResult = NoApiResult
    /\ invoiceDataType = "array"
    /\ globalProjectData = <<>>
    /\ globalRevenueData = <<>>
    /\ globalInvoiceData = <<>>
    /\ quarterlyChart = NoChart
    /\ statusChart = NoStatusChart
    /\ fileSelected = FALSE
    /\ parseBtnDisabled = TRUE
    /\ loadingShown = FALSE
    /\ message = "none"
    /\ inFlight = {}
    /\ started = 0
    /\ heldFrom = 0
    /\ dataLoaded = FALSE
    /\ isChatVisible = FALSE
    /\ chatIsLoading = FALSE
    /\ chatWindowShown = FALSE
    /\ floatingBtnShown = FALSE
    /\ chatInputDisabled = FALSE
    /\ chatLoadingShown = FALSE
    /\ chatTimers = 0
    /\ messages = <<>>
    /\ sessionId = 0
    /\ chatRequests = {}
    /\ chatStarted = 0

Settled == pending = {}

\* handleUpdate, response accepted: setData and setInvoiceData
SetDataset ==
    /\ UNCHANGED <<staticVars, uploadVars, apiResult, chatVars>>
    /\ invoiceDataType' = "array"
    /\ Settled
    /\ \E u \in Uploads :
          /\ data' = u[1]
          /\ invoiceData' = u[2]
    /\ pending' = {"monthly", "invoice"}
    /\ UNCHANGED <<selectedYear, selectedYearQuarterly, monthlyData,
                   monthlyInvoiceData, quarterlyData, directCalculatedData,
                   calc, reloadScheduled>>

\* handleHardRefresh: both lists emptied, the reload timer set
HardRefresh ==
    /\ UNCHANGED <<staticVars, uploadVars, apiResult, chatVars>>
    /\ invoiceDataType' = "array"
    /\ Settled
    /\ data' = <<>>
    /\ invoiceData' = <<>>
    /\ reloadScheduled' = TRUE
    /\ pending' = {"monthly", "invoice"}
    /\ UNCHANGED <<selectedYear, selectedYearQuarterly, monthlyData,
                   monthlyInvoiceData, quarterlyData, directCalculatedData,
                   calc>>

\* window.location.reload: the page starts again
Reload ==
    /\ UNCHANGED <<staticVars, staticChatVars, chatStarted>>
    /\ dataLoaded' = FALSE
    /\ isChatVisible' = FALSE
    /\ chatIsLoading' = FALSE
    /\ messages' = <<>>
    /\ sessionId' = 0
    /\ chatRequests' = {}
    /\ apiResult' = NoApiResult
    /\ invoiceDataType' = "array"
    /\ reloadScheduled
    /\ data' = <<>>
    /\ invoiceData' = <<>>
    /\ selectedYear' \in defaultYears
    /\ selectedYearQuarterly' = selectedYear'
    /\ monthlyData' = EmptyMonthly
    /\ monthlyInvoiceData' = EmptyInvoiceData
    /\ quarterlyData' = EmptyQuarterly
    /\ directCalculatedData' = EmptyMonthly
    /\ calc' = NoCalc
    /\ pending' = {}
    /\ reloadScheduled' = FALSE
    /\ selectedFile' = FALSE
    /\ isLoading' = FALSE
    /\ isAnalyzing' = FALSE
    /\ error' = "null"
    /\ pc' = "idle"
    /\ response' = NoResponse

\* the monthly year selector (rendered only when data is not empty)
SelectYear ==
    /\ UNCHANGED <<staticVars, uploadVars, wireVars, chatVars>>
    /\ Settled
    /\ data # <<>>
    /\ \E y \in availableYears :
          /\ y # selectedYear
          /\ selectedYear' = y
    /\ pending' = {"monthly", "invoice"}
    /\ UNCHANGED <<data, invoiceData, selectedYearQuarterly, monthlyData,
                   monthlyInvoiceData, quarterlyData, directCalculatedData,
                   calc, reloadScheduled>>

\* the quarterly year selector
SelectYearQuarterly ==
    /\ UNCHANGED <<staticVars, uploadVars, wireVars, chatVars>>
    /\ Settled
    /\ data # <<>>
    /\ \E y \in availableYears :
          /\ y # selectedYearQuarterly
          /\ selectedYearQuarterly' = y
    /\ pending' = {"quarterly"}
    /\ UNCHANGED <<data, invoiceData, selectedYear, monthlyData,
                   monthlyInvoiceData, quarterlyData, directCalculatedData,
                   calc, reloadScheduled>>

\* useEffect -> calculateMonthlyData
MonthlyEffect ==
    /\ UNCHANGED <<staticVars, uploadVars, wireVars, chatVars>>
    /\ "monthly" \in pending
    /\ IF data = <<>>
       THEN /\ pending' = pending \ {"monthly"}
            /\ UNCHANGED <<monthlyData, directCalculatedData, calc>>
       ELSE /\ monthlyData' = PublishedMonthly(data, selectedYear)
            /\ directCalculatedData' = PublishedMonthly(data, selectedYear)
            /\ calc' = [workingData |-> uniqueData(data),
                        monthlyRevenue |->
                            monthlyTotals(uniqueData(data), selectedYear)]
            /\ pending' = (pending \ {"monthly"}) \cup {"quarterly"}
    /\ UNCHANGED <<data, invoiceData, selectedYear, selectedYearQuarterly,
                   monthlyInvoiceData, quarterlyData, reloadScheduled>>

\* useEffect -> calculateInvoiceData; on a held value that is not an array
\* invoiceData.forEach throws and the effect never completes
InvoiceEffect ==
    /\ UNCHANGED <<staticVars, uploadVars, wireVars, chatVars>>
    /\ "invoice" \in pending
    /\ "monthly" \notin pending
    /\ invoiceDataType = "array"
    /\ IF invoiceData = <<>>
       THEN UNCHANGED monthlyInvoiceData
       ELSE monthlyInvoiceData' =
                [monthlyPayments |->
                     monthlyPaymentsArray(invoiceData, selectedYear)]
    /\ pending' = pending \ {"invoice"}
    /\ UNCHANGED <<data, invoiceData, selectedYear, selectedYearQuarterly,
                   monthlyData, quarterlyData, directCalculatedData, calc,
                   reloadScheduled>>

\* useEffect -> calculateQuarterlyData
QuarterlyEffect ==
    /\ UNCHANGED <<staticVars, uploadVars, wireVars, chatVars>>
    /\ pending = {"quarterly"}
    /\ IF monthlyData.monthlyRevenue = <<>>
       THEN UNCHANGED quarterlyData
       ELSE quarterlyData' = QuarterlyOf(monthlyData.monthlyRevenue)
    /\ pending' = {}
    /\ UNCHANGED <<data, invoiceData, selectedYear, selectedYearQuarterly,
                   monthlyData, monthlyInvoiceData, directCalculatedData,
                   calc, reloadScheduled>>

\* ------------------------------------------------ UpdateButton: the upload
\* the accepted upload responses tried: at most one row and one invoice
UploadResponses ==
    { [projects |-> u[1], invoices |-> u[2]] :
        u \in { x \in Uploads : Len(x[1]) <= 1 /\ Len(x[2]) <= 1 } }

\* handleFileChange with a file chosen
FileChange ==
    /\ Settled
    /\ selectedFile' = TRUE
    /\ error' = "null"
    /\ UNCHANGED <<data, invoiceData, selectedYear, selectedYearQuarterly,
                   monthlyData, monthlyInvoiceData, quarterlyData,
                   directCalculatedData, calc, pending, reloadScheduled,
                   isLoading, isAnalyzing, pc, response>>
    /\ UNCHANGED <<staticVars, wireVars, chatVars>>

\* click on "Update Data" (disabled while isLoading, isAnalyzing or without
\* a file): handleUpdate up to the await of uploadAndGetData
HandleUpdate ==
    /\ Settled
    /\ ~isLoading /\ ~isAnalyzing /\ selectedFile
    /\ isLoading' = TRUE
    /\ error' = "null"
    /\ pc' = "upload"
    /\ UNCHANGED <<data, invoiceData, selectedYear, selectedYearQuarterly,
                   monthlyData, monthlyInvoiceData, quarterlyData,
                   directCalculatedData, calc, pending, reloadScheduled,
                   selectedFile, isAnalyzing, response>>
    /\ apiResult' = NoApiResult
    /\ UNCHANGED <<staticVars, invoiceDataType, chatVars>>

\* the analysis is started without the lists being published
UploadAccepted_NotPublished ==
    /\ Settled
    /\ pc = "upload"
    /\ \E r \in UploadResponses : response' = r
    /\ isAnalyzing' = TRUE
    /\ pc' = "analysis"
    /\ UNCHANGED <<data, invoiceData, selectedYear, selectedYearQuarterly,
                   monthlyData, monthlyInvoiceData, quarterlyData,
                   directCalculatedData, calc, pending, reloadScheduled,
                   selectedFile, isLoading, error>>
    /\ UNCHANGED <<staticVars, wireVars, chatVars>>

\* uploadAndGetData returns: setData, setInvoiceData, setIsAnalyzing(true),
\* up to the await of getGPTAnalysis
UploadAcceptedOf(responses) ==
    /\ Settled
    /\ pc = "upload"
    /\ \E r \in responses :
          /\ response' = r
          /\ data' = r.projects
          /\ invoiceData' = r.invoices
          /\ invoiceDataType' = "array"
    /\ isAnalyzing' = TRUE
    /\ pc' = "analysis"
    /\ pending' = {"monthly", "invoice"}
    /\ UNCHANGED <<selectedYear, selectedYearQuarterly, monthlyData,
                   monthlyInvoiceData, quarterlyData, directCalculatedData,
                   calc, reloadScheduled, selectedFile, isLoading, error>>
    /\ UNCHANGED <<staticVars, apiResult, chatVars>>

\* every response of the right format
UploadAccepted == UploadAcceptedOf(UploadResponses)

\* the outer catch without the outer finally
UploadRejected_NoFinally ==
    /\ Settled
    /\ pc = "upload"
    /\ error' = "upload"
    /\ pc' = "idle"
    /\ UNCHANGED <<data, invoiceData, selectedYear, selectedYearQuarterly,
                   monthlyData, monthlyInvoiceData, quarterlyData,
                   directCalculatedData, calc, pending, reloadScheduled,
                   selectedFile, isLoading, isAnalyzing, response>>
    /\ UNCHANGED <<staticVars, wireVars, chatVars>>

\* uploadAndGetData throws (response not OK, or of an unexpected format):
\* the outer catch and finally of handleUpdate
UploadRejected ==
    /\ Settled
    /\ pc = "upload"
    /\ error' = "upload"
    /\ isLoading' = FALSE
    /\ isAnalyzing' = FALSE
    /\ pc' = "idle"
    /\ UNCHANGED <<data, invoiceData, selectedYear, selectedYearQuarterly,
                   monthlyData, monthlyInvoiceData, quarterlyData,
                   directCalculatedData, calc, pending, reloadScheduled,
                   selectedFile, response>>
    /\ UNCHANGED <<staticVars, wireVars, chatVars>>

\* ------------------------------------------------------- App: the chat
\* the values Math.random gives the session id
SessionIds == {1, 2}

\* the message ChatWindow starts with
Greeting == [role |-> "system", content |-> "greeting", id |-> 0]

\* the chat is made visible without the data being marked as loaded
handleDataUpdated_VisibleOnly ==
    /\ isChatVisible' = TRUE
    /\ UNCHANGED <<dataLoaded, chatIsLoading, messages, sessionId>>
    /\ UNCHANGED <<chatRequests, chatStarted, staticChatVars>>

\* App.handleDataUpdated, the onDataUpdated callback handleUpdate calls after
\* the analysis (the UpdateButton taking the callback); with dataLoaded
\* ChatWindow is rendered for the first time and initialises its state
handleDataUpdated ==
    /\ isChatVisible' = TRUE
    /\ dataLoaded' = TRUE
    /\ IF dataLoaded
       THEN UNCHANGED <<chatIsLoading, messages, sessionId>>
       ELSE /\ chatIsLoading' = FALSE
            /\ messages' = <<Greeting>>
            /\ sessionId' \in SessionIds
    /\ UNCHANGED <<chatRequests, chatStarted, staticChatVars>>

\* getGPTAnalysis returns, with insights or with an empty result; then
\* onDataUpdated
AnalysisDone ==
    /\ Settled
    /\ pc = "analysis"
    /\ \E empty \in BOOLEAN :
          error' = IF empty THEN "noinsights" ELSE error
    /\ isLoading' = FALSE
    /\ isAnalyzing' = FALSE
    /\ pc' = "idle"
    /\ UNCHANGED <<data, invoiceData, selectedYear, selectedYearQuarterly,
                   monthlyData, monthlyInvoiceData, quarterlyData,
                   directCalculatedData, calc, pending, reloadScheduled,
                   selectedFile, response>>
    /\ UNCHANGED <<staticVars, wireVars>>
    /\ handleDataUpdated

\* getGPTAnalysis throws: the inner catch and finally, then onDataUpdated and
\* the outer finally
AnalysisFailed ==
    /\ Settled
    /\ pc = "analysis"
    /\ error' = "note"
    /\ isLoading' = FALSE
    /\ isAnalyzing' = FALSE
    /\ pc' = "idle"
    /\ UNCHANGED <<data, invoiceData, selectedYear, selectedYearQuarterly,
                   monthlyData, monthlyInvoiceData, quarterlyData,
                   directCalculatedData, calc, pending, reloadScheduled,
                   selectedFile, response>>
    /\ UNCHANGED <<staticVars, wireVars>>
    /\ handleDataUpdated

\* ------------------------------------------------------------ the charts
\* The charts are rendered only when data is not empty.
ChartsShown == data # <<>>

\* expected series of the expected-vs-actualized chart
expectedMonthlyRevenue == monthlyData.monthlyRevenue

\* actualized series of the expected-vs-actualized chart
ActualizedShown == actualizedMonthlyRevenue(invoiceData)

\* ----------------------------------------------- static page: the parse
\* the project rows of the status example: two 'Active', one without status
ExampleProjects ==
    << Project(Code("P1"), Status("Active"), NumYear(2025),
               (<<2025, 1>> :> Num(100))),
       Project(Code("P3"), Status("Active"), StrYear(<<"2", "0", "2", "5">>),
               (<<2025, 1>> :> Num(900))),
       Project(Code("P2"), NoStatus, NumYear(2024),
               (<<2024, 12>> :> Num(7))) >>

BaseRevenue == Series(2025, 1, 12, 1)

\* the /parse results of a workbook without an invoice sheet: no
\* invoice_totals_2025
ResultsWithoutInvoices ==
    { [project_data |-> BaseProjects, rev_totals |-> BaseRevenue,
       invoice_data |-> <<>>] }

\* the complete /parse results tried: project_data, rev_totals and
\* invoice_data (every rev_totals with fixed rows, every list of at most one
\* row and the example with a fixed rev_totals)
ParseResults ==
    { [project_data |-> BaseProjects, rev_totals |-> rev,
       invoice_data |-> BaseInvoices] : rev \in RevLists }
    \cup
    { [project_data |-> p, rev_totals |-> BaseRevenue,
       invoice_data |-> BaseInvoices] :
        p \in SeqsUpTo(ProjectPool, 1) \cup {ExampleProjects} }

\* handleFileSelect with a file chosen
FileSelect ==
    /\ fileSelected' = TRUE
    /\ parseBtnDisabled' = FALSE
    /\ UNCHANGED loadingShown
    /\ message' = "selected"
    /\ UNCHANGED <<globalProjectData, globalRevenueData, globalInvoiceData,
                   quarterlyChart, statusChart, inFlight, started, heldFrom>>
    /\ UNCHANGED <<reactVars, wireVars, chatVars>>

\* parse button click, up to the first await: the request is sent
ParseClick ==
    /\ ~parseBtnDisabled
    /\ fileSelected
    /\ started < MaxParses
    /\ parseBtnDisabled' = TRUE
    /\ loadingShown' = TRUE
    /\ started' = started + 1
    /\ inFlight' = inFlight \cup {started + 1}
    /\ UNCHANGED <<globalProjectData, globalRevenueData, globalInvoiceData,
                   quarterlyChart, statusChart, fileSelected, message,
                   heldFrom>>
    /\ UNCHANGED <<reactVars, wireVars, chatVars>>

\* the response of a request is a success: every chart is created and the
\* timer of showChatWindow is set
ParseSuccessOf(results, years) ==
    /\ \E id \in inFlight, result \in results, currentYear \in years :
          /\ inFlight' = inFlight \ {id}
          /\ heldFrom' = id
          /\ globalProjectData' = result.project_data
          /\ globalRevenueData' = result.rev_totals
          /\ globalInvoiceData' = result.invoice_data
          /\ quarterlyChart' =
                 [year |-> currentYear,
                  y |-> createQuarterlyRevenueChart(result.rev_totals,
                                                    currentYear)]
          /\ statusChart' =
                 [rows |-> result.project_data,
                  year |-> AllYears,
                  counts |-> createProjectStatusChart(result.project_data,
                                                      AllYears)]
    /\ message' = "success"
    /\ parseBtnDisabled' = FALSE
    /\ loadingShown' = FALSE
    /\ chatTimers' = chatTimers + 1
    /\ UNCHANGED <<fileSelected, started>>
    /\ UNCHANGED <<reactVars, wireVars, reactChatVars, sharedChatVars,
                   chatWindowShown, floatingBtnShown, chatInputDisabled,
                   chatLoadingShown>>

ParseSuccess == ParseSuccessOf(ParseResults, CurrentYears)

\* the response is a success without invoice_totals_2025: the globals are
\* stored, the monthly and quarterly charts created, then
\* createExpectedVsActualChart throws and the catch block reports a failure
ParseThrowsAfterStore ==
    /\ \E id \in inFlight, result \in ResultsWithoutInvoices,
          currentYear \in CurrentYears :
          /\ inFlight' = inFlight \ {id}
          /\ heldFrom' = id
          /\ globalProjectData' = result.project_data
          /\ globalRevenueData' = result.rev_totals
          /\ globalInvoiceData' = result.invoice_data
          /\ quarterlyChart' =
                 [year |-> currentYear,
                  y |-> createQuarterlyRevenueChart(result.rev_totals,
                                                    currentYear)]
    /\ message' = "error"
    /\ parseBtnDisabled' = FALSE
    /\ loadingShown' = FALSE
    /\ UNCHANGED <<statusChart, fileSelected, started>>
    /\ UNCHANGED <<reactVars, wireVars, chatVars>>

\* result.success is false, or fetch or response.json() throws
ParseFailure ==
    /\ \E id \in inFlight : inFlight' = inFlight \ {id}
    /\ message' = "error"
    /\ parseBtnDisabled' = FALSE
    /\ loadingShown' = FALSE
    /\ UNCHANGED <<globalProjectData, globalRevenueData, globalInvoiceData,
                   quarterlyChart, statusChart, fileSelected, started,
                   heldFrom>>
    /\ UNCHANGED <<reactVars, wireVars, chatVars>>

\* static page, quarterlyYearSelector change
QuarterlyYearChange ==
    /\ quarterlyChart # NoChart
    /\ \E selected \in YearOptions :
          quarterlyChart' =
              [year |-> selected,
               y |-> createQuarterlyRevenueChart(globalRevenueData, selected)]
    /\ UNCHANGED <<globalProjectData, globalRevenueData, globalInvoiceData,
                   statusChart, fileSelected, parseBtnDisabled, loadingShown,
                   message,
                   inFlight, started, heldFrom>>
    /\ UNCHANGED <<reactVars, wireVars, chatVars>>

\* static page, yearSelector change
StatusYearChange ==
    /\ quarterlyChart # NoChart
    /\ \E selected \in populateYearSelector(globalProjectData) :
          /\ selected # statusChart.year
          /\ statusChart' =
                 [rows |-> globalProjectData,
                  year |-> selected,
                  counts |-> createProjectStatusChart(globalProjectData,
                                                      selected)]
    /\ UNCHANGED <<globalProjectData, globalRevenueData, globalInvoiceData,
                   quarterlyChart, fileSelected, parseBtnDisabled, loadingShown,
                   message,
                   inFlight, started, heldFrom>>
    /\ UNCHANGED <<reactVars, wireVars, chatVars>>

NextStatic ==
    \/ FileSelect
    \/ ParseClick
    \/ ParseSuccess
    \/ ParseThrowsAfterStore
    \/ ParseFailure
    \/ QuarterlyYearChange
    \/ StatusYearChange

SpecStatic == Init /\ [][NextStatic]_vars

Next ==
    \/ SetDataset
    \/ HardRefresh
    \/ Reload
    \/ SelectYear
    \/ SelectYearQuarterly
    \/ MonthlyEffect
    \/ InvoiceEffect
    \/ QuarterlyEffect

Spec == Init /\ [][Next]_vars

\* the upload as the user drives it: file, click, responses, reset
NextUpload ==
    \/ FileChange
    \/ HandleUpdate
    \/ UploadAccepted
    \/ UploadRejected
    \/ AnalysisDone
    \/ AnalysisFailed
    \/ HardRefresh
    \/ Reload
    \/ MonthlyEffect
    \/ InvoiceEffect
    \/ QuarterlyEffect

SpecUpload == Init /\ [][NextUpload]_vars

\* ------------------------------- UpdateButton on the response as sent
\* uploadAndGetData returns for the server's response: handleUpdate from the
\* format test to setIsAnalyzing(true), up to the await of getGPTAnalysis
UploadReturns ==
    /\ Settled
    /\ pc = "upload"
    /\ \E h \in HttpResponses :
          LET r == uploadAndGetData(h)
              held == OrEmptyArray(r.value.invoices)
          IN /\ r.outcome = "return"
             /\ apiResult' = r
             /\ response' = [projects |-> r.value.projects.v,
                             invoices |-> r.value.invoices.v]
             /\ IF JTruthy(r.value.projects) /\ IsArray(r.value.projects)
                THEN /\ data' = r.value.projects.v
                     /\ invoiceData' = held.v
                     /\ invoiceDataType' = held.t
                     /\ pending' = {"monthly", "invoice"}
                ELSE IF r.value.t = "array"
                THEN /\ data' = r.value.v
                     /\ invoiceData' = <<>>
                     /\ invoiceDataType' = "array"
                     /\ pending' = {"monthly", "invoice"}
                ELSE UNCHANGED <<data, invoiceData, invoiceDataType, pending>>
    /\ isAnalyzing' = TRUE
    /\ pc' = "analysis"
    /\ UNCHANGED <<selectedYear, selectedYearQuarterly, monthlyData,
                   monthlyInvoiceData, quarterlyData, directCalculatedData,
                   calc, reloadScheduled, selectedFile, isLoading, error>>
    /\ UNCHANGED <<staticVars, chatVars>>

\* uploadAndGetData throws for the server's response: the outer catch and
\* finally of handleUpdate
UploadThrows ==
    /\ Settled
    /\ pc = "upload"
    /\ \E h \in HttpResponses :
          LET r == uploadAndGetData(h)
          IN /\ r.outcome = "throw"
             /\ apiResult' = r
    /\ error' = "upload"
    /\ isLoading' = FALSE
    /\ isAnalyzing' = FALSE
    /\ pc' = "idle"
    /\ UNCHANGED <<data, invoiceData, invoiceDataType, selectedYear,
                   selectedYearQuarterly, monthlyData, monthlyInvoiceData,
                   quarterlyData, directCalculatedData, calc, pending,
                   reloadScheduled, selectedFile, response>>
    /\ UNCHANGED <<staticVars, chatVars>>

NextApi ==
    \/ FileChange
    \/ HandleUpdate
    \/ UploadReturns
    \/ UploadThrows
    \/ AnalysisDone
    \/ AnalysisFailed
    \/ MonthlyEffect
    \/ InvoiceEffect
    \/ QuarterlyEffect

\* the upload on every shape of server response
SpecApi == Init /\ [][NextApi]_vars

\* ----------------------------------------------------- ChatWindow (React)
\* the texts typed into the chat input (none of them blank)
ChatTexts == {"a", "b"}

\* the body of a chat request; id is the position of the request among the
\* requests sent
ChatRequest(id, text, projects, invoices, session) ==
    [id |-> id, request |-> text, projectData |-> projects,
     invoiceData |-> invoices, sessionId |-> session]

\* a message of the list; id is the request it belongs to
UserMessage(text, id) == [role |-> "user", content |-> text, id |-> id]
AssistantMessage(content, id) ==
    [role |-> "assistant", content |-> content, id |-> id]

\* handleSendMessage with a non-blank input, up to the await of
\* sendChatMessage
handleSendMessage(text) ==
    /\ chatStarted < MaxChats
    /\ messages' = Append(messages, UserMessage(text, chatStarted + 1))
    /\ chatIsLoading' = TRUE
    /\ chatRequests' =
           chatRequests \cup
               {ChatRequest(chatStarted + 1, text, data, invoiceData,
                            sessionId)}
    /\ chatStarted' = chatStarted + 1
    /\ UNCHANGED <<sessionId, dataLoaded, isChatVisible, staticChatVars>>
    /\ UNCHANGED <<reactVars, wireVars, staticVars>>

\* click on the send button (disabled while isLoading or on a blank input)
SendClick ==
    /\ Settled
    /\ dataLoaded /\ isChatVisible
    /\ ~chatIsLoading
    /\ \E text \in ChatTexts : handleSendMessage(text)

\* Enter in the textarea (handleKeyDown): the textarea is never disabled
SendEnter ==
    /\ Settled
    /\ dataLoaded /\ isChatVisible
    /\ \E text \in ChatTexts : handleSendMessage(text)

\* sendChatMessage resolves: the extracted output is appended
ChatResolves ==
    /\ dataLoaded
    /\ \E r \in chatRequests :
          /\ messages' = Append(messages, AssistantMessage("output", r.id))
          /\ chatRequests' = chatRequests \ {r}
    /\ chatIsLoading' = FALSE
    /\ UNCHANGED <<sessionId, chatStarted, dataLoaded, isChatVisible,
                   staticChatVars>>
    /\ UNCHANGED <<reactVars, wireVars, staticVars>>

\* sendChatMessage rejects (or the extraction throws): the apology is appended
ChatRejects ==
    /\ dataLoaded
    /\ \E r \in chatRequests :
          /\ messages' = Append(messages, AssistantMessage("apology", r.id))
          /\ chatRequests' = chatRequests \ {r}
    /\ chatIsLoading' = FALSE
    /\ UNCHANGED <<sessionId, chatStarted, dataLoaded, isChatVisible,
                   staticChatVars>>
    /\ UNCHANGED <<reactVars, wireVars, staticVars>>

\* the close button of ChatWindow: onClose
CloseChat ==
    /\ dataLoaded /\ isChatVisible
    /\ isChatVisible' = FALSE
    /\ UNCHANGED <<dataLoaded, chatIsLoading, sharedChatVars, staticChatVars>>
    /\ UNCHANGED <<reactVars, wireVars, staticVars>>

\* the toggle button of App (rendered when dataLoaded && !isChatVisible)
OpenChat ==
    /\ dataLoaded /\ ~isChatVisible
    /\ isChatVisible' = TRUE
    /\ UNCHANGED <<dataLoaded, chatIsLoading, sharedChatVars, staticChatVars>>
    /\ UNCHANGED <<reactVars, wireVars, staticVars>>

\* ------------------------------------------------- static page: the chat
\* a new id is made on every call
GeneratedIds_AlwaysNew(current) == SessionIds

\* generateSessionId: the ids chatSessionId can hold after the call
GeneratedIds(current) == IF current = 0 THEN SessionIds ELSE {current}

\* showChatWindow
showChatWindow ==
    /\ sessionId' \in GeneratedIds(sessionId)
    /\ chatWindowShown' = TRUE
    /\ floatingBtnShown' = FALSE

\* the timer set after a successful parse fires
ShowChatTimer ==
    /\ chatTimers > 0
    /\ chatTimers' = chatTimers - 1
    /\ showChatWindow
    /\ UNCHANGED <<chatInputDisabled, chatLoadingShown, messages,
                   chatRequests, chatStarted, reactChatVars>>
    /\ UNCHANGED <<reactVars, wireVars, staticVars>>

\* click on the floating chat button
FloatingChatClick ==
    /\ floatingBtnShown
    /\ showChatWindow
    /\ UNCHANGED <<chatInputDisabled, chatLoadingShown, chatTimers, messages,
                   chatRequests, chatStarted, reactChatVars>>
    /\ UNCHANGED <<reactVars, wireVars, staticVars>>

\* click on the close button of the chat window: hideChatWindow
HideChatWindow ==
    /\ chatWindowShown
    /\ chatWindowShown' = FALSE
    /\ floatingBtnShown' = TRUE
    /\ UNCHANGED <<chatInputDisabled, chatLoadingShown, chatTimers,
                   sharedChatVars, reactChatVars>>
    /\ UNCHANGED <<reactVars, wireVars, staticVars>>

\* sendChatMessage (send button or Enter, both disabled with the input) with
\* a non-blank input, up to the await of fetch
StaticSend ==
    /\ chatWindowShown
    /\ ~chatInputDisabled
    /\ chatStarted < MaxChats
    /\ \E text \in ChatTexts, session \in GeneratedIds(sessionId) :
          /\ messages' = Append(messages, UserMessage(text, chatStarted + 1))
          /\ sessionId' = session
          /\ chatRequests' =
                 chatRequests \cup
                     {ChatRequest(chatStarted + 1, text, globalProjectData,
                                  globalInvoiceData, session)}
    /\ chatInputDisabled' = TRUE
    /\ chatLoadingShown' = TRUE
    /\ chatStarted' = chatStarted + 1
    /\ UNCHANGED <<chatWindowShown, floatingBtnShown, chatTimers,
                   reactChatVars>>
    /\ UNCHANGED <<reactVars, wireVars, staticVars>>

\* fetch of the request sent by sendChatMessage (the input is disabled since)
\* resolves: the response (or the error the service or HTTP reports) is
\* appended, the input enabled again
StaticChatResponds ==
    /\ chatInputDisabled
    /\ \E r \in chatRequests, content \in {"output"} :
          /\ messages' = Append(messages, AssistantMessage(content, r.id))
          /\ chatRequests' = chatRequests \ {r}
    /\ chatLoadingShown' = FALSE
    /\ chatInputDisabled' = FALSE
    /\ UNCHANGED <<sessionId, chatStarted, chatWindowShown, floatingBtnShown,
                   chatTimers, reactChatVars>>
    /\ UNCHANGED <<reactVars, wireVars, staticVars>>

\* fetch or response.json() throws: the catch block
StaticChatFails ==
    /\ chatInputDisabled
    /\ \E r \in chatRequests :
          /\ messages' = Append(messages, AssistantMessage("apology", r.id))
          /\ chatRequests' = chatRequests \ {r}
    /\ chatLoadingShown' = FALSE
    /\ chatInputDisabled' = FALSE
    /\ UNCHANGED <<sessionId, chatStarted, chatWindowShown, floatingBtnShown,
                   chatTimers, reactChatVars>>
    /\ UNCHANGED <<reactVars, wireVars, staticVars>>

\* ------------------------------------------------ the chat of either page
\* a browser session is on one of the two pages: the first file is chosen on
\* the React page or on the static page
ReactFileChange == ~fileSelected /\ FileChange
StaticFileSelect == ~selectedFile /\ FileSelect

\* the uploads and the parses of a chat session: two datasets on either page
ChatUploadResponses ==
    { r \in UploadResponses :
         /\ r.projects = BaseProjects
         /\ r.invoices \in {<<>>, BaseInvoices} }

ChatUploadAccepted == UploadAcceptedOf(ChatUploadResponses)

ChatParseResults ==
    { r \in ParseResults :
         /\ r.project_data \in {<<>>, BaseProjects}
         /\ r.rev_totals = BaseRevenue }

ChatParseSuccess == ParseSuccessOf(ChatParseResults, {DigitsOf(2025, 4)})

NextChat ==
    \/ ReactFileChange
    \/ HandleUpdate
    \/ ChatUploadAccepted
    \/ UploadRejected
    \/ AnalysisDone
    \/ AnalysisFailed
    \/ MonthlyEffect
    \/ InvoiceEffect
    \/ QuarterlyEffect
    \/ SendClick
    \/ SendEnter
    \/ ChatResolves
    \/ ChatRejects
    \/ CloseChat
    \/ OpenChat
    \/ StaticFileSelect
    \/ ParseClick
    \/ ChatParseSuccess
    \/ ShowChatTimer
    \/ FloatingChatClick
    \/ HideChatWindow
    \/ StaticSend
    \/ StaticChatResponds
    \/ StaticChatFails

SpecChat == Init /\ [][NextChat]_vars

\* ------------------------------------------- the handlers to their end
\* One session of either page, every call of handleUpdate and every run of
\* the parse handler followed to its end.
NextLive ==
    \/ ReactFileChange
    \/ HandleUpdate
    \/ ChatUploadAccepted
    \/ UploadRejected
    \/ AnalysisDone
    \/ AnalysisFailed
    \/ MonthlyEffect
    \/ InvoiceEffect
    \/ QuarterlyEffect
    \/ StaticFileSelect
    \/ ParseClick
    \/ ChatParseSuccess
    \/ ParseThrowsAfterStore
    \/ ParseFailure

\* every awaited network call resolves or rejects (uploadAndGetData,
\* getGPTAnalysis, the fetch of /parse), and React runs the effects of a
\* commit
Fairness ==
    /\ WF_vars(UploadRejected \/ ChatUploadAccepted)
    /\ WF_vars(AnalysisFailed \/ AnalysisDone)
    /\ WF_vars(MonthlyEffect)
    /\ WF_vars(InvoiceEffect)
    /\ WF_vars(QuarterlyEffect)
    /\ WF_vars(ParseFailure \/ ParseThrowsAfterStore \/ ChatParseSuccess)

SpecLive == Init /\ [][NextLive]_vars /\ Fairness

\* ================================================================ claims
\* calculateMonthlyData has run on the rows and the year now held
MonthlyDone == data # <<>> /\ "monthly" \notin pending

\* calculateInvoiceData has run on the invoices and the year now held
InvoiceDone == invoiceData # <<>> /\ "invoice" \notin pending

\* positions of the rows that are the first of their code, or have no code
KeptIndices(rows) ==
    { i \in 1..Len(rows) :
        \/ ~CodeTruthy(rows[i].code)
        \/ \A j \in 1..(i - 1) : rows[j].code # rows[i].code }

\* the k-th smallest member of a set of positions
NthOf(K, k) == CHOOSE i \in K : Cardinality({ j \in K : j < i }) = k - 1

\* C1: the deduplicated rows are exactly the rows of data that are the first
\* of their non-empty code or have no code, in input order; every non-empty
\* code occurs once among them.
C1_DedupFirstWins ==
    MonthlyDone =>
        LET w == calc.workingData
            K == KeptIndices(data)
        IN /\ Len(w) = Cardinality(K)
           /\ \A k \in 1..Len(w) : w[k] = data[NthOf(K, k)]
           /\ \A a, b \in 1..Len(w) :
                 (a # b /\ CodeTruthy(w[a].code)) => w[a].code # w[b].code

\* a duplicate has been dropped
C1_Witness ==
    /\ MonthlyDone
    /\ \E i, j \in 1..Len(data) :
          i < j /\ CodeTruthy(data[i].code) /\ data[i].code = data[j].code
    /\ Len(calc.workingData) = Len(data) - 1

\* sum over the positions S of rows of the numbers in column (year, m)
RECURSIVE SumAt(_, _, _, _)
SumAt(rows, year, m, S) ==
    IF S = {} THEN 0
    ELSE LET i == CHOOSE x \in S : TRUE
         IN rows[i].f[Col(year, m)].v + SumAt(rows, year, m, S \ {i})

\* positions of the rows whose column (year, m) holds a number
NumericAt(rows, year, m) ==
    { i \in 1..Len(rows) : rows[i].f[Col(year, m)].t = "number" }

\* C2 (as claimed): for every year, 2025 included, the published monthly
\* expected revenue is the sum of the numeric values of the deduplicated rows.
C2_PublishedIsSumOfDedup ==
    MonthlyDone =>
        /\ Len(monthlyData.monthlyRevenue) = 12
        /\ \A m \in Months :
              monthlyData.monthlyRevenue[m] =
                  SumAt(data, selectedYear, m,
                        KeptIndices(data) \cap NumericAt(data, selectedYear, m))

\* C3 (as claimed): the published monthly and cumulative arrays are the ones
\* computed from the data, never literal values.
C3_NoLiteralOverride ==
    MonthlyDone =>
        /\ monthlyData.monthlyRevenue = calc.monthlyRevenue
        /\ monthlyData.cumulativeRevenue = RunningTotal(calc.monthlyRevenue)
        /\ directCalculatedData = monthlyData

\* C4: in the monthly totals a column counts only where it holds a number;
\* rows without the column, or with a string or null in it, add 0, and all
\* 12 totals are produced.
C4_NumericOnly ==
    MonthlyDone =>
        /\ Len(calc.monthlyRevenue) = 12
        /\ \A m \in Months :
              calc.monthlyRevenue[m] =
                  SumAt(calc.workingData, selectedYear, m,
                        NumericAt(calc.workingData, selectedYear, m))

\* a month with a non-numeric value in one row and a number in another
C4_Witness ==
    /\ MonthlyDone
    /\ \E m \in Months :
          /\ \E i \in 1..Len(calc.workingData) :
                calc.workingData[i].f[Col(selectedYear, m)].t \in {"string", "null"}
          /\ \E i \in 1..Len(calc.workingData) :
                calc.workingData[i].f[Col(selectedYear, m)].t = "number"
          /\ calc.monthlyRevenue[m] > 0

C7_QuarterlyOfItsYear ==
    (Settled /\ ChartsShown) =>
        quarterlyData.quarterlyRevenue =
            QuarterlyOf(PublishedMonthly(data, selectedYearQuarterly).monthlyRevenue)
                .quarterlyRevenue

\* the amount of an invoice as a number of hundredths, 0 when the value is
\* absent, null or not parsable
ClaimedAmount(invoice) ==
    LET a == invoice.payment_amount_usd
    IN IF a.t = "number" THEN a.v
       ELSE IF a.t = "string" /\ ~parseFloat(StripNonNumeric(a.s)).nan
            THEN parseFloat(StripNonNumeric(a.s)).v
            ELSE 0

\* an invoice that counts: its amount is parsable and strictly positive
ValidInvoice(invoice) == ClaimedAmount(invoice) > 0

Present(x) == x.t \notin {"absent", "null"}

\* year and month of an invoice by the first matching rule of the claimed
\* order; month 0 when no rule matches
ClaimedResolution(invoice, target) ==
    LET name == invoice.invoice_month_name
        byName == IF name.t = "string" THEN MonthIndex(substring3(name.s)) ELSE 0
    IN IF Present(invoice.invoice_month) /\ Present(invoice.invoice_year)
          /\ invoice.invoice_month.v >= 1 /\ invoice.invoice_month.v <= 12
       THEN [y |-> invoice.invoice_year.v, m |-> invoice.invoice_month.v]
       ELSE IF invoice.invoice_date.k = "valid"
            THEN [y |-> invoice.invoice_date.y, m |-> invoice.invoice_date.m]
            ELSE IF byName # 0
                 THEN [y |-> IF Present(invoice.invoice_year)
                             THEN invoice.invoice_year.v ELSE target,
                       m |-> byName]
                 ELSE [y |-> 0, m |-> 0]

\* sum of the claimed amounts of the invoices at the positions S
RECURSIVE SumAmounts(_, _)
SumAmounts(invoices, S) ==
    IF S = {} THEN 0
    ELSE LET i == CHOOSE x \in S : TRUE
         IN ClaimedAmount(invoices[i]) + SumAmounts(invoices, S \ {i})

\* positions of the valid invoices resolved to month m of the target year
ResolvedTo(invoices, target, m) ==
    { i \in 1..Len(invoices) :
        /\ ValidInvoice(invoices[i])
        /\ ClaimedResolution(invoices[i], target) = [y |-> target, m |-> m] }

\* C8 (as claimed): every invoice is added to at most one month and at most
\* once, so the 12 totals together never exceed the sum of the valid amounts.
C8_AddedAtMostOnce ==
    InvoiceDone =>
        SumSeq(monthlyInvoiceData.monthlyPayments) <=
            SumAmounts(invoiceData,
                       { i \in 1..Len(invoiceData) : ValidInvoice(invoiceData[i]) })

\* C9 (as claimed): the actualized total of month M is the sum of the valid
\* invoices resolved to month M of the target year, in calculateInvoiceData
\* and in the totals the expected-vs-actualized chart plots.
C9_TotalsByResolvedMonth ==
    /\ InvoiceDone =>
          \A m \in Months :
             monthlyInvoiceData.monthlyPayments[m] =
                 SumAmounts(invoiceData, ResolvedTo(invoiceData, selectedYear, m))
    /\ (ChartsShown /\ invoiceData # <<>>) =>
          \A m \in Months :
             ActualizedShown[m] =
                 SumAmounts(invoiceData, ResolvedTo(invoiceData, RenderYear, m))

\* C10 (as claimed): "$1,200.50" parses to 1200.50, and in both invoice paths
\* the invoices with an unparsable, zero or negative amount add nothing.
C10_OnlyPositiveAmounts ==
    /\ parseFloat(StripNonNumeric(
           <<"$", "1", ",", "2", "0", "0", ".", "5", "0">>)) = Number(120050)
    /\ InvoiceDone =>
          monthlyInvoiceData.monthlyPayments =
              monthlyPaymentsArray(SelectSeq(invoiceData, ValidInvoice),
                                   selectedYear)
    /\ (ChartsShown /\ invoiceData # <<>>) =>
          /\ ActualizedShown =
                 actualizedMonthlyRevenue(SelectSeq(invoiceData, ValidInvoice))
          /\ \A m \in Months : ActualizedShown[m] >= 0

\* sum of the revenue totals of the entries of rev_totals that are for the
\* months lo..hi of the year
RevenueOfMonths(revenueData, year, lo, hi) ==
    LET of == SelectSeq(revenueData,
                        LAMBDA item : /\ SubSeq(item.month, 1, 4) = year
                                      /\ DigitsValue(item.month, 6, 2) >= lo
                                      /\ DigitsValue(item.month, 6, 2) <= hi)
    IN SumSeq([i \in 1..Len(of) |-> of[i].revenue_total])

\* C5 (as claimed): there are exactly 4 quarterly totals and Q_k is the sum of
\* the monthly revenue of months 3k-2..3k, the quarterly cumulative value k is
\* Q_1 + ... + Q_k; in calculateQuarterlyData and in the static quarterly chart.
C5_QuarterIsItsThreeMonths ==
    /\ (Settled /\ quarterlyData # EmptyQuarterly) =>
          /\ Len(quarterlyData.quarterlyRevenue) = 4
          /\ \A k \in 1..4 :
                /\ quarterlyData.quarterlyRevenue[k] =
                       SumSeq(SubSeq(monthlyData.monthlyRevenue, 3 * k - 2, 3 * k))
                /\ quarterlyData.cumulativeRevenue[k] =
                       SumSeq(SubSeq(quarterlyData.quarterlyRevenue, 1, k))
    /\ quarterlyChart # NoChart =>
          /\ Len(quarterlyChart.y) = 4
          /\ \A k \in 1..4 :
                quarterlyChart.y[k] =
                    Number(RevenueOfMonths(globalRevenueData, quarterlyChart.year,
                                           3 * k - 2, 3 * k))

\* calculateInvoiceData has been called on the invoice list now held
InvoiceEffectRan == "invoice" \notin pending

\* C11 (as claimed): for every invoice list uploaded, the empty list
\* included, the actualized result has 12 entries, all 0 when the list is
\* empty; this for what calculateInvoiceData leaves in monthlyInvoiceData and
\* for what the expected-vs-actualized chart plots.
C11_TwelveMonthsAlways ==
    /\ (ChartsShown /\ InvoiceEffectRan) =>
          /\ Len(monthlyInvoiceData.monthlyPayments) = 12
          /\ invoiceData = <<>> =>
                monthlyInvoiceData.monthlyPayments = ZeroMonths
    /\ ChartsShown =>
          /\ Len(ActualizedShown) = 12
          /\ invoiceData = <<>> => ActualizedShown = ZeroMonths

\* the status a record is counted under, as claimed
ClaimedStatus(project) ==
    IF project.status.t = "string" /\ project.status.s # ""
    THEN project.status.s ELSE "Unknown"

\* the year a 'Year' value stands for, 0 when it has none
YearNumber(year) ==
    IF year.t = "number" THEN year.v
    ELSE IF year.t = "string" THEN DigitsValue(year.s, 1, Len(year.s))
         ELSE 0

\* positions of the records the claim counts under a year selection
Considered(rows, selected) ==
    { i \in 1..Len(rows) :
        \/ selected = AllYears
        \/ YearNumber(rows[i].Year) = DigitsValue(selected, 1, Len(selected)) }

\* sum of the counts of the labels D
RECURSIVE SumCounts(_, _)
SumCounts(counts, D) ==
    IF D = {} THEN 0
    ELSE LET label == CHOOSE l \in D : TRUE
         IN counts[label] + SumCounts(counts, D \ {label})

\* counts is the claimed status distribution of the records at positions K
IsDistribution(counts, rows, K) ==
    /\ DOMAIN counts = { ClaimedStatus(rows[i]) : i \in K }
    /\ \A label \in DOMAIN counts :
          counts[label] =
              Cardinality({ i \in K : ClaimedStatus(rows[i]) = label })
    /\ SumCounts(counts, DOMAIN counts) = Cardinality(K)

\* C12: the status chart of the static page counts the records of the
\* selected year (all records under 'all') by status, 'Unknown' for an absent
\* or empty status, and the counts sum to the number of records counted;
\* statusCounts of ProjectCharts does so for all records of the same list, and
\* two 'Active' records and one without status give {Active: 2, Unknown: 1}.
C12_StatusDistribution ==
    /\ statusChart # NoStatusChart =>
          /\ IsDistribution(statusChart.counts, statusChart.rows,
                            Considered(statusChart.rows, statusChart.year))
          /\ IsDistribution(statusCounts(statusChart.rows), statusChart.rows,
                            1..Len(statusChart.rows))
    /\ statusCounts(ExampleProjects) = ("Active" :> 2) @@ ("Unknown" :> 1)

\* the example list under the filter "2025": its two 'Active' records, one
\* with a number and one with a string as Year, and not the third record
C12_Witness ==
    /\ statusChart.rows = ExampleProjects
    /\ statusChart.year = <<"2", "0", "2", "5">>
    /\ statusChart.counts = ("Active" :> 2)
    /\ statusCounts(statusChart.rows) = ("Active" :> 2) @@ ("Unknown" :> 1)

\* the aggregates held are the ones computed from the lists and year held
AggregatesOfHeld ==
    /\ monthlyData = PublishedMonthly(data, selectedYear)
    /\ monthlyInvoiceData =
           [monthlyPayments |-> monthlyPaymentsArray(invoiceData, selectedYear)]

\* C13 (as claimed): when an upload replaces the project list, the state the
\* charts are rendered from next holds the aggregates of the new lists, never
\* the new projects with aggregates of the previous upload.
C13_AtomicReplace ==
    [][(data' # data /\ ChartsShown') => AggregatesOfHeld']_vars

\* C14 (as claimed): from handleHardRefresh on, the lists and every aggregate
\* (monthly and cumulative, quarterly, invoice totals) are empty together.
C14_ResetClearsAll ==
    reloadScheduled =>
        /\ data = <<>>
        /\ invoiceData = <<>>
        /\ monthlyData = EmptyMonthly
        /\ quarterlyData = EmptyQuarterly
        /\ monthlyInvoiceData = EmptyInvoiceData

\* C15 (as claimed): on the static page the result held never goes back from
\* a later-started request to an earlier-started one; in the React component
\* the "Update Data" button is disabled for as long as handleUpdate is
\* suspended, so that no second upload is started.
C15_LaterUploadWins ==
    /\ [][heldFrom' >= heldFrom]_vars
    /\ [](pc # "idle" => (isLoading \/ isAnalyzing))

\* C16: handleUpdate has published the projects and invoices of the response
\* when it starts the analysis call, they stay published while the call is
\* awaited, and when the call fails the lists are unchanged, the error is the
\* note and handleUpdate ends with the button released.
C16_AnalysisNeverFailsDisplay ==
    /\ [][(pc # "analysis" /\ pc' = "analysis") =>
              (data' = response'.projects /\ invoiceData' = response'.invoices)]_vars
    /\ []((pc = "analysis" /\ ~reloadScheduled) =>
              (data = response.projects /\ invoiceData = response.invoices))
    /\ [][(pc = "analysis" /\ error' \notin {error, "noinsights"}) =>
              /\ data' = data
              /\ invoiceData' = invoiceData
              /\ error' = "note"
              /\ pc' = "idle"
              /\ ~isLoading' /\ ~isAnalyzing']_vars

\* the analysis failed and the uploaded rows are shown with their aggregates
C16_Witness ==
    /\ error = "note"
    /\ pc = "idle"
    /\ Settled
    /\ data # <<>>
    /\ data = response.projects
    /\ invoiceData = response.invoices
    /\ monthlyData = PublishedMonthly(data, selectedYear)

\* C17 (as claimed): a rejected upload ends handleUpdate with the upload error
\* set and the held lists unchanged; and when the static parse handler shows
\* its failure message the three globals are what they were before.
C17_RejectedUploadRetains ==
    /\ [][(pc = "upload" /\ pc' = "idle" /\ reloadScheduled' = reloadScheduled) =>
              (error' = "upload" /\ data' = data /\ invoiceData' = invoiceData)]_vars
    /\ [][(inFlight' # inFlight /\ inFlight' \subseteq inFlight
           /\ message' = "error") =>
              UNCHANGED <<globalProjectData, globalRevenueData,
                          globalInvoiceData>>]_vars

\* the aggregate a list of projects has when it is computed from scratch
FreshMonthly(rows, year) ==
    IF rows = <<>> THEN {EmptyMonthly,
                         [monthlyRevenue |-> ZeroMonths,
                          cumulativeRevenue |-> ZeroMonths]}
    ELSE {PublishedMonthly(rows, year)}

FreshInvoice(invoices, year) ==
    IF invoices = <<>> THEN {EmptyInvoiceData, [monthlyPayments |-> ZeroMonths]}
    ELSE {[monthlyPayments |-> monthlyPaymentsArray(invoices, year)]}

\* C18 (as claimed): once the effects have run, the monthly aggregate held is
\* the one of the project list and year held, and the invoice aggregate the one
\* of the invoice list and year held, also when the list is empty; nothing of
\* a previous dataset is kept.
C18_RecomputedOnEveryChange ==
    Settled =>
        /\ monthlyData \in FreshMonthly(data, selectedYear)
        /\ monthlyInvoiceData \in FreshInvoice(invoiceData, selectedYear)

\* C19 (as claimed): in the expected-vs-actualized chart the expected series
\* and the actualized series are of the year in its title, whatever the
\* monthly year selector holds.
C19_SameYearInChart ==
    (ChartsShown /\ Settled) =>
        /\ expectedMonthlyRevenue =
               PublishedMonthly(data, ChartTitleYear).monthlyRevenue
        /\ ActualizedShown = RenderFold(ZeroMonths, invoiceData)
        /\ RenderYear = ChartTitleYear

\* C20: deduplicating the deduplicated rows gives the same rows again.
C20_DedupIdempotent ==
    MonthlyDone =>
        /\ calc.workingData = uniqueData(data)
        /\ uniqueData(calc.workingData) = calc.workingData

\* two rows are kept in their order, a duplicate and a code-less row seen
C20_Witness ==
    /\ MonthlyDone
    /\ Len(data) = 2
    /\ \/ Len(calc.workingData) = 1
       \/ ~CodeTruthy(data[2].code)
    /\ uniqueData(calc.workingData) = calc.workingData

\* the month-by-month recurrence of a running sum over twelve months
IsRunningSum(monthly, cumulative) ==
    /\ Len(monthly) = 12
    /\ Len(cumulative) = 12
    /\ cumulative[1] = monthly[1]
    /\ \A i \in 2..12 : cumulative[i] = cumulative[i - 1] + monthly[i]
    /\ cumulative[12] = SumSeq(monthly)

\* C21: every pair of arrays calculateMonthlyData publishes (in the state and
\* in directCalculatedData) has, in month i, the cumulative value equal to the
\* sum of the published expected revenue of months 1..i; December's
\* cumulative value is the full-year total.
C21_CumulativeIsRunningSum ==
    /\ monthlyData # EmptyMonthly =>
           IsRunningSum(monthlyData.monthlyRevenue,
                        monthlyData.cumulativeRevenue)
    /\ directCalculatedData # EmptyMonthly =>
           IsRunningSum(directCalculatedData.monthlyRevenue,
                        directCalculatedData.cumulativeRevenue)

\* a computed pair (not the literal one) with revenue in two different months
C21_Witness ==
    /\ monthlyData # EmptyMonthly
    /\ monthlyData.monthlyRevenue # correctValues
    /\ monthlyData.monthlyRevenue = calc.monthlyRevenue
    /\ \E i \in 1..11 :
           /\ monthlyData.monthlyRevenue[i] # 0
           /\ monthlyData.monthlyRevenue[i + 1] # 0
           /\ monthlyData.cumulativeRevenue[i + 1] #
                  monthlyData.monthlyRevenue[i + 1]
    /\ IsRunningSum(monthlyData.monthlyRevenue, monthlyData.cumulativeRevenue)

\* C22 (as claimed): a call of uploadAndGetData ends by returning an object
\* whose projects field is an array, or by throwing; after it returned, the
\* invoice list held is an array.
C22_TwoOutcomes ==
    /\ apiResult.outcome \in {"none", "return", "throw"}
    /\ apiResult.outcome = "return" =>
           /\ apiResult.value.t = "object"
           /\ IsArray(apiResult.value.projects)
    /\ (apiResult.outcome = "return" /\ pc = "analysis") =>
           invoiceDataType = "array"

\* the rows of an array that are row mappings
GoodRows(rows) == SelectSeq(rows, LAMBDA row : ~IsNullRow(row))

\* C24 (as claimed): when the project array of an OK response has a malformed
\* row, the upload is not aborted: the call returns, the rows held are the
\* well-formed rows of the array, and once the monthly effect has run the
\* aggregate published is the one of those rows.
C24_BadRowNeverAborts ==
    LET sent == apiResult.sent
    IN (apiResult.outcome # "none" /\ sent.ok /\ IsArray(sent.body.projects)) =>
           /\ apiResult.outcome = "return"
           /\ data = GoodRows(sent.body.projects.v)
           /\ MonthlyDone =>
                  monthlyData =
                      PublishedMonthly(GoodRows(sent.body.projects.v),
                                       selectedYear)

\* the lists the page holds: DataContext on the React page, the globals on
\* the static page
HeldProjects == IF dataLoaded THEN data ELSE globalProjectData
HeldInvoices == IF dataLoaded THEN invoiceData ELSE globalInvoiceData

\* C23: every chat request carries the text of its user message, the project
\* list and the invoice list held when it was sent, and the session id; the
\* session id, once made, is the same on every request, also after later
\* uploads.
C23_ChatRequestPayload ==
    /\ [](\A r \in chatRequests :
             /\ r.sessionId # 0
             /\ r.sessionId = sessionId
             /\ \E i \in 1..Len(messages) :
                    messages[i] = UserMessage(r.request, r.id))
    /\ [][/\ sessionId # 0 => sessionId' = sessionId
          /\ \A r \in chatRequests' \ chatRequests :
                 /\ r.projectData = HeldProjects
                 /\ r.invoiceData = HeldInvoices]_vars

\* on the static page a second request is in flight, sent after a second parse
\* replaced the lists, with the session id of the first
C23_Witness ==
    /\ chatWindowShown
    /\ heldFrom = 2
    /\ \E r \in chatRequests :
          /\ r.id = 2
          /\ r.sessionId = sessionId
          /\ r.projectData = globalProjectData
          /\ \E i \in 1..Len(messages) :
                 /\ messages[i].role = "assistant"
                 /\ messages[i].id = 1

\* the years occurring in the rows: the years of the 'Year' values and the
\* years of the '<year> <Mon>' columns the rows have
YearsPresent(rows) ==
    { YearNumber(rows[i].Year) :
        i \in { j \in 1..Len(rows) : YearNumber(rows[j].Year) # 0 } }
    \cup
    { ColumnOf(c)[1] :
        c \in { k \in 1..Cardinality(YM) :
                  \E i \in 1..Len(rows) : rows[i].f[k].t # "absent" } }

\* C25 (as claimed): while the charts are shown, the years offered by the year
\* selectors are the years occurring in the rows held, and the year selected
\* is one of them.
C25_YearsFromData ==
    (ChartsShown /\ Settled) =>
        /\ availableYears = YearsPresent(data)
        /\ selectedYear \in YearsPresent(data)
        /\ selectedYearQuarterly \in YearsPresent(data)

\* C26: every upload attempt ends with the controls released. Given that each
\* network call resolves or rejects, every call of handleUpdate reaches its
\* end with isLoading and isAnalyzing both false, and every run of the
\* static parse handler (success, failure reported by the server, exception)
\* reaches its end with the loading indicator hidden and the parse button
\* enabled.
C26_UploadTerminatesReleased ==
    /\ (pc # "idle") ~> (pc = "idle" /\ ~isLoading /\ ~isAnalyzing)
    /\ \A id \in 1..MaxParses :
          (id \in inFlight)
              ~> (id \notin inFlight /\ ~loadingShown /\ ~parseBtnDisabled)

\* a call of handleUpdate has ended after a failed analysis with both flags
\* released, or a run of the parse handler has ended in its catch block with
\* the indicator hidden and the button enabled
C26_Witness ==
    \/ /\ pc = "idle" /\ error = "note" /\ dataLoaded
       /\ ~isLoading /\ ~isAnalyzing
    \/ /\ started > 0 /\ inFlight = {} /\ message = "error"
       /\ ~loadingShown /\ ~parseBtnDisabled

\* what App renders of the chat: the window (ChatWindow with isVisible) and
\* the open-chat toggle button
ReactChatWindowShown == dataLoaded /\ isChatVisible
ToggleButtonShown == dataLoaded /\ ~isChatVisible

\* C27: the chat is reachable only once data has been loaded. In App
\* isChatVisible implies dataLoaded in every reachable state; dataLoaded
\* becomes true only in the step handleUpdate ends after a successful upload
\* (the onDataUpdated callback) and never goes back to false; the chat window
\* and the open-chat toggle are never both shown. On the static page the
\* chat window and the floating chat button are never both shown.
C27_ChatOnlyAfterData ==
    /\ [](isChatVisible => dataLoaded)
    /\ [](~(ReactChatWindowShown /\ ToggleButtonShown))
    /\ [](~(chatWindowShown /\ floatingBtnShown))
    /\ [][dataLoaded => dataLoaded']_vars
    /\ [][(~dataLoaded /\ dataLoaded') =>
             /\ pc = "analysis" /\ pc' = "idle"
             /\ data = response.projects
             /\ isChatVisible']_vars

\* the chat was closed after a first upload and a second upload is under way
C27_Witness ==
    /\ dataLoaded /\ ~isChatVisible /\ ToggleButtonShown
    /\ pc = "analysis"

\* C28: at most one chat request is in flight at a time: while a request is
\* pending (isLoading in ChatWindow, the input disabled on the static page)
\* no further request is started, by the send button or by Enter.
C28_OneChatInFlight == Cardinality(chatRequests) <= 1

\* the static page alone keeps to one request (its input and its button are
\* disabled together)
StaticOneChatInFlight == ~dataLoaded => Cardinality(chatRequests) <= 1

\* the replies of the message list, in the order they were appended
Replies == SelectSeq(messages, LAMBDA m : m.role = "assistant")

\* the requests not yet answered
PendingIds == { r.id : r \in chatRequests }

\* C29: every chat message sent gets exactly one reply (the service's output
\* or an apology), the replies are appended in the order the messages were
\* sent, and the loading indicator is shown exactly while a request is
\* pending. As a property of every state reached: an answered request has
\* one reply and a pending one none, the replies are in the order of their
\* requests, and the indicator of the page is on iff a request is pending.
C29_OneReplyInOrder ==
    /\ \A id \in 1..chatStarted :
          Len(SelectSeq(Replies, LAMBDA m : m.id = id))
              = IF id \in PendingIds THEN 0 ELSE 1
    /\ \A i, j \in 1..Len(Replies) : i < j => Replies[i].id < Replies[j].id
    /\ dataLoaded => (chatIsLoading <=> chatRequests # {})
    /\ ~dataLoaded => (chatLoadingShown <=> chatRequests # {})

\* the static page alone keeps the order and the indicator
StaticOneReplyInOrder == dataLoaded \/ C29_OneReplyInOrder

\* C30: the two invoice aggregations of ProjectCharts agree: with 2025
\* selected, the monthly totals calculateInvoiceData has stored in
\* monthlyInvoiceData for the held invoice list equal, month by month, the
\* actualized totals the render path plots in the expected-vs-actualized
\* chart.
C30_InvoiceAggregationsAgree ==
    (InvoiceDone /\ ChartsShown /\ selectedYear = RenderYear) =>
        \A m \in Months :
           monthlyInvoiceData.monthlyPayments[m] = ActualizedShown[m]

====
